---- MODULE Spec2Model ----
(***************************************************************************)
(* Station registry, persistence and session controller of Liquid Radio   *)
(* (src/js/app.js) together with the station editor workflow               *)
(* (src/js/StationEditor.js).                                              *)
(*                                                                         *)
(* Strings the code manipulates (ids, titles, route paths) are sequences  *)
(* of one-character strings; strings it only stores are TLA+ strings.     *)
(* A JavaScript reference that may be undefined is a sequence of length   *)
(* 0 (undefined) or 1.  A Station object carries a field ref that stands  *)
(* for its object identity; two records with the same ref are the same    *)
(* object.                                                                 *)
(***************************************************************************)
EXTENDS Integers, Sequences, FiniteSets, TLC

VARIABLES
    pc,               \* "init" | "startup" | "ready" | "failed"
    seed,             \* the global stations list supplied by the server
    hasStorage,       \* whether localStorage is available
    stored,           \* the value under localStorage key "stations"
    stations,         \* stream.stations, the registry
    currentStation,   \* stream.currentStation
    route,            \* $route.path
    selectedStation,  \* StationEditor data: the staged draft
    validationError,  \* StationEditor data
    dialogOpen,       \* whether the md-dialog of the editor is open
    callbacks,        \* Vue's nextTick callback queue
    dirty,            \* watchers queued in Vue's scheduler
    docTitle,         \* document.title
    player,           \* what the last reload signal told the player
    last,             \* the call of switchStation by the last route event, and its outcome
    edits,            \* number of changes of the registry made through the editor
    draftEdits        \* number of changes made to drafts in the editor

vars == <<pc, seed, hasStorage, stored, stations, currentStation, route,
          selectedStation, validationError, dialogOpen, callbacks, dirty,
          docTitle, player, last, edits, draftEdits>>

----------------------------------------------------------------------------
(* Bounds of the model *)

MaxSources == 2
MaxEdits == 1
MaxDraftEdits == 2

----------------------------------------------------------------------------
(* Program constants and input alphabets *)

\* stream.defaultStation, "liquid_radio", abbreviated to three characters
DefaultStation == <<"l", "_", "r">>

RootPath == <<"/">>

NoError == "undefined"

Src1 == <<[src |-> "u", type |-> "t"]>>

SeedDefault == [id |-> DefaultStation, title |-> <<"L", " ", "r">>,
                description |-> "", source |-> Src1]
SeedTwin == [id |-> DefaultStation, title |-> <<"A">>, description |-> "", source |-> Src1]
SeedBad == [id |-> <<"a">>, title |-> <<>>, description |-> "", source |-> Src1]

SeedLists == { <<SeedBad, SeedDefault>>,
               <<SeedDefault, SeedTwin>>,
               <<SeedBad>> }

\* A stored text is represented by what JSON.parse makes of it.
NoItem == [kind |-> "null", items |-> <<>>]
EmptyText == [kind |-> "empty", items |-> <<>>]
Garbage == [kind |-> "garbage", items |-> <<>>]
NotAList == [kind |-> "nonarray", items |-> <<>>]

ItemClash == [shape |-> "object", id |-> DefaultStation, title |-> <<"x">>,
              description |-> "d", source |-> <<[src |-> "v", type |-> ""]>>]
ItemNew == [shape |-> "object", id |-> <<"x">>, title |-> <<"x">>,
            description |-> "", source |-> Src1]
ItemNoSource == [shape |-> "object", id |-> <<"r">>, title |-> <<"r">>,
                 description |-> "", source |-> <<>>]
ItemOther == [shape |-> "other", id |-> <<>>, title |-> <<>>,
              description |-> "", source |-> <<>>]

StoredInputs == { NoItem, EmptyText, Garbage, NotAList,
                  [kind |-> "array",
                   items |-> <<ItemOther, ItemClash, ItemNoSource, ItemNew, ItemNew>>] }

PathInputs == { RootPath,
                <<"/">> \o DefaultStation,
                <<"/", "a">>,
                <<"/", "x", "/", "a">> }

IdInputs == { DefaultStation, <<"a">>, <<"x">> }

TitleInputs == { <<>>, <<"A">>, <<"L", " ", "r">> }

DescriptionInputs == { "d" }

SrcInputs == { "", "u" }

----------------------------------------------------------------------------
(* Station.js and Util.js *)

\* new Station(...): the validation failure, or NoError
StationError(id, title, description, source) ==
    IF id = <<>> THEN "InvalidId"
    ELSE IF title = <<>> THEN "InvalidTitle"
    ELSE IF source = <<>> \/ \E i \in 1..Len(source) : source[i].src = ""
         THEN "InvalidSource"
    ELSE NoError

Station(ref, id, title, description, source) ==
    [ref |-> ref, id |-> id, title |-> title,
     description |-> description, source |-> source]

\* Util.getStationIndex: zero-based index of the first station with the id, or -1
getStationIndex(arr, id) ==
    IF \E i \in 1..Len(arr) : arr[i].id = id
    THEN (CHOOSE i \in 1..Len(arr) :
             arr[i].id = id /\ \A j \in 1..(i - 1) : arr[j].id # id) - 1
    ELSE -1

\* the identity of a newly allocated object: the least one not in use
FreshRef(arr, cur) ==
    LET used == {arr[i].ref : i \in 1..Len(arr)} \cup {cur[i].ref : i \in 1..Len(cur)}
    IN  CHOOSE n \in 1..(Cardinality(used) + 1) :
            n \notin used /\ \A m \in 1..(n - 1) : m \in used

\* Util.addStation: the error it throws, or NoError
addStationError(arr, id, title, description, source) ==
    IF getStationIndex(arr, id) # -1 THEN "DuplicateStation"
    ELSE StationError(id, title, description, source)

\* Util.addStation: the array after a successful call
addStation(arr, cur, id, title, description, source) ==
    Append(arr, Station(FreshRef(arr, cur), id, title, description, source))

\* Station.fromJSON followed by Util.addStationObject, errors caught by the caller
addStationObject(arr, item) ==
    IF /\ item.shape = "object"
       /\ StationError(item.id, item.title, item.description, item.source) = NoError
       /\ getStationIndex(arr, item.id) = -1
    THEN Append(arr, Station(FreshRef(arr, <<>>), item.id, item.title,
                             item.description, item.source))
    ELSE arr

\* JSON.stringify(this.stream.stations)
Stringify(arr) ==
    [kind |-> "array",
     items |-> [i \in 1..Len(arr) |->
                  [shape |-> "object", id |-> arr[i].id, title |-> arr[i].title,
                   description |-> arr[i].description, source |-> arr[i].source]]]

----------------------------------------------------------------------------
(* Vue scheduler and router *)

FlushCb == [fn |-> "flush", play |-> FALSE]
ReloadCb(play) == [fn |-> "reload", play |-> play]

\* queueWatcher: the scheduler flush is registered with nextTick once
QueueFlush(cbs) ==
    IF \E i \in 1..Len(cbs) : cbs[i].fn = "flush" THEN cbs ELSE Append(cbs, FlushCb)

\* router.push of a relative location: resolved against the current path
ResolvePath(relative, base) ==
    LET lastSlash == CHOOSE i \in 1..Len(base) :
                        base[i] = "/" /\ \A j \in (i + 1)..Len(base) : base[j] # "/"
    IN  SubSeq(base, 1, lastSlash) \o relative

\* the last segment of a path, which names the station
LastSegment(path) ==
    LET lastSlash == CHOOSE i \in 1..Len(path) :
                        path[i] = "/" /\ \A j \in (i + 1)..Len(path) : path[j] # "/"
    IN  SubSeq(path, lastSlash + 1, Len(path))

\* the ids of the stations of a registry
Ids(arr) == {arr[i].id : i \in 1..Len(arr)}

----------------------------------------------------------------------------
(* app.js *)

\* a switchStation without the early return for the current station's id
switchStationAlways(arr, cur, cbs, dq, id, play) ==
    LET index == getStationIndex(arr, id)
    IN  IF index = -1
        THEN [threw |-> TRUE, cur |-> cur, cbs |-> cbs, dirty |-> dq]
        ELSE [threw |-> FALSE,
              cur |-> <<arr[index + 1]>>,
              cbs |-> Append(QueueFlush(cbs), ReloadCb(play)),
              dirty |-> dq \cup {"current"}]

\* a switchStation whose reload does not wait for the scheduler flush
switchStationEager(arr, cur, cbs, dq, id, play) ==
    IF cur # <<>> /\ id = cur[1].id
    THEN [threw |-> FALSE, cur |-> cur, cbs |-> cbs, dirty |-> dq]
    ELSE LET index == getStationIndex(arr, id)
         IN  IF index = -1
             THEN [threw |-> TRUE, cur |-> cur, cbs |-> cbs, dirty |-> dq]
             ELSE [threw |-> FALSE,
                   cur |-> <<arr[index + 1]>>,
                   cbs |-> <<ReloadCb(play)>> \o QueueFlush(cbs),
                   dirty |-> dq \cup {"current"}]

\* a switchStation that schedules no reload
switchStationSilent(arr, cur, cbs, dq, id, play) ==
    IF cur # <<>> /\ id = cur[1].id
    THEN [threw |-> FALSE, cur |-> cur, cbs |-> cbs, dirty |-> dq]
    ELSE LET index == getStationIndex(arr, id)
         IN  IF index = -1
             THEN [threw |-> TRUE, cur |-> cur, cbs |-> cbs, dirty |-> dq]
             ELSE [threw |-> FALSE,
                   cur |-> <<arr[index + 1]>>,
                   cbs |-> QueueFlush(cbs),
                   dirty |-> dq \cup {"current"}]

\* switchStation(id, play): outcome as a record
switchStation(arr, cur, cbs, dq, id, play) ==
    IF cur # <<>> /\ id = cur[1].id
    THEN [threw |-> FALSE, cur |-> cur, cbs |-> cbs, dirty |-> dq]
    ELSE LET index == getStationIndex(arr, id)
         IN  IF index = -1
             THEN [threw |-> TRUE, cur |-> cur, cbs |-> cbs, dirty |-> dq]
             ELSE [threw |-> FALSE,
                   cur |-> <<arr[index + 1]>>,
                   cbs |-> Append(QueueFlush(cbs), ReloadCb(play)),
                   dirty |-> dq \cup {"current"}]

\* beforeMount step 1: the stations.forEach over the seed list
RECURSIVE SeedStations(_, _)
SeedStations(raw, acc) ==
    IF raw = <<>> THEN acc
    ELSE LET s == Head(raw)
         IN  SeedStations(Tail(raw),
                 IF StationError(s.id, s.title, s.description, s.source) = NoError
                 THEN Append(acc, Station(FreshRef(acc, <<>>), s.id, s.title,
                                          s.description, s.source))
                 ELSE acc)

\* a merge that lets a stored record replace the station that has its id
RECURSIVE MergeStoredOverwrite(_, _)
MergeStoredOverwrite(items, acc) ==
    IF items = <<>> THEN acc
    ELSE LET item == Head(items)
             index == getStationIndex(acc, item.id)
         IN  MergeStoredOverwrite(Tail(items),
                 IF /\ item.shape = "object"
                    /\ StationError(item.id, item.title, item.description,
                                    item.source) = NoError
                    /\ index # -1
                 THEN [acc EXCEPT ![index + 1] =
                          Station(acc[index + 1].ref, item.id, item.title,
                                  item.description, item.source)]
                 ELSE addStationObject(acc, item))

\* beforeMount step 2: the storedStations.forEach
RECURSIVE MergeStored(_, _)
MergeStored(items, acc) ==
    IF items = <<>> THEN acc
    ELSE MergeStored(Tail(items), addStationObject(acc, Head(items)))

NoCall == [op |-> "none", id |-> <<>>, play |-> FALSE, threw |-> FALSE]
Call(id, play, threw) == [op |-> "switchStation", id |-> id, play |-> play, threw |-> threw]
NoPlayer == [id |-> <<>>, source |-> <<>>, play |-> FALSE]

Init ==
    /\ pc = "init"
    /\ seed \in SeedLists
    /\ hasStorage \in BOOLEAN
    /\ stored \in StoredInputs
    /\ hasStorage = FALSE => stored = NoItem
    /\ stations = <<>>
    /\ currentStation = <<>>
    /\ route \in PathInputs
    /\ selectedStation = <<>>
    /\ validationError = NoError
    /\ dialogOpen = FALSE
    /\ callbacks = <<>>
    /\ dirty = {}
    /\ docTitle = <<>>
    /\ player = NoPlayer
    /\ last = NoCall
    /\ edits = 0
    /\ draftEdits = 0

\* a beforeMount() that takes a stored list for the registry and leaves the
\* seed list out
beforeMountStoredOnly(seedList, storage, item, path) ==
    LET seeded == IF storage /\ item.kind = "array"
                  THEN <<>> ELSE SeedStations(seedList, <<>>)
        truthy == storage /\ item.kind \notin {"null", "empty"}
        parseFailed == truthy /\ item.kind = "garbage"
        notIterable == truthy /\ item.kind = "nonarray"
        merged == IF truthy /\ item.kind = "array"
                  THEN MergeStored(item.items, seeded) ELSE seeded
        dq0 == IF merged # <<>> THEN {"stations"} ELSE {}
        cb0 == IF merged # <<>> THEN <<FlushCb>> ELSE <<>>
        first == switchStation(merged, <<>>, cb0, dq0,
                     IF path = RootPath THEN DefaultStation ELSE Tail(path), FALSE)
        second == switchStation(merged, <<>>, cb0, dq0, DefaultStation, FALSE)
        pushed == ResolvePath(DefaultStation, path)
        aborted == [pc |-> "failed", stations |-> merged,
                    stored |-> IF parseFailed THEN NoItem ELSE item,
                    currentStation |-> <<>>, route |-> path,
                    callbacks |-> cb0, dirty |-> dq0]
    IN  IF notIterable
        THEN \* storedStations.forEach is not a function
             aborted
        ELSE IF ~first.threw
        THEN [aborted EXCEPT !.pc = "startup", !.currentStation = first.cur,
                             !.callbacks = first.cbs, !.dirty = first.dirty]
        ELSE IF path = RootPath \/ second.threw
        THEN \* the error of switchStation(defaultStation) is not caught
             aborted
        ELSE [aborted EXCEPT !.pc = "startup", !.currentStation = second.cur,
                             !.callbacks = second.cbs, !.route = pushed,
                             !.dirty = second.dirty \cup
                                       (IF pushed # path THEN {"route"} ELSE {})]

\* beforeMount(): what it leaves behind, as a record; pc is "failed" when an
\* error leaves the hook
beforeMount(seedList, storage, item, path) ==
    LET seeded == SeedStations(seedList, <<>>)
        truthy == storage /\ item.kind \notin {"null", "empty"}
        parseFailed == truthy /\ item.kind = "garbage"
        notIterable == truthy /\ item.kind = "nonarray"
        merged == IF truthy /\ item.kind = "array"
                  THEN MergeStored(item.items, seeded) ELSE seeded
        dq0 == IF merged # <<>> THEN {"stations"} ELSE {}
        cb0 == IF merged # <<>> THEN <<FlushCb>> ELSE <<>>
        first == switchStation(merged, <<>>, cb0, dq0,
                     IF path = RootPath THEN DefaultStation ELSE Tail(path), FALSE)
        second == switchStation(merged, <<>>, cb0, dq0, DefaultStation, FALSE)
        pushed == ResolvePath(DefaultStation, path)
        aborted == [pc |-> "failed", stations |-> merged,
                    stored |-> IF parseFailed THEN NoItem ELSE item,
                    currentStation |-> <<>>, route |-> path,
                    callbacks |-> cb0, dirty |-> dq0]
    IN  IF notIterable
        THEN \* storedStations.forEach is not a function
             aborted
        ELSE IF ~first.threw
        THEN [aborted EXCEPT !.pc = "startup", !.currentStation = first.cur,
                             !.callbacks = first.cbs, !.dirty = first.dirty]
        ELSE IF path = RootPath \/ second.threw
        THEN \* the error of switchStation(defaultStation) is not caught
             aborted
        ELSE [aborted EXCEPT !.pc = "startup", !.currentStation = second.cur,
                             !.callbacks = second.cbs, !.route = pushed,
                             !.dirty = second.dirty \cup
                                       (IF pushed # path THEN {"route"} ELSE {})]

BeforeMount ==
    /\ pc = "init"
    /\ LET r == beforeMount(seed, hasStorage, stored, route)
       IN  /\ pc' = r.pc
           /\ stations' = r.stations
           /\ stored' = r.stored
           /\ currentStation' = r.currentStation
           /\ route' = r.route
           /\ callbacks' = r.callbacks
           /\ dirty' = r.dirty
    /\ last' = NoCall
    /\ UNCHANGED <<seed, hasStorage, selectedStation, validationError,
                   dialogOpen, docTitle, player, edits, draftEdits>>

\* a user event handler runs only when no microtask is pending
Quiet == pc = "ready" /\ callbacks = <<>>

\* a route watcher whose push to the current route is a navigation like any
\* other and queues the watcher again
RouteWatcherRepush ==
    /\ callbacks # <<>> /\ Head(callbacks).fn = "flush"
    /\ "route" \in dirty
    /\ LET r == switchStation(stations, currentStation, callbacks,
                              dirty \ {"route"}, Tail(route), TRUE)
           pushed == ResolvePath(DefaultStation, route)
       IN  IF r.threw
           THEN \* router.push(this.stream.defaultStation); a push to the
                \* current route is aborted and notifies no watcher
                /\ route' = pushed
                /\ dirty' = dirty
                /\ UNCHANGED <<currentStation, callbacks>>
           ELSE /\ currentStation' = r.cur
                /\ callbacks' = r.cbs
                /\ dirty' = r.dirty
                /\ UNCHANGED route
    /\ last' = Call(Tail(route), TRUE,
                    switchStation(stations, currentStation, callbacks,
                                  dirty \ {"route"}, Tail(route), TRUE).threw)
    /\ UNCHANGED <<pc, seed, hasStorage, stored, stations, selectedStation,
                   validationError, dialogOpen, docTitle, player, edits, draftEdits>>

\* watch.$route, run by the scheduler flush
RouteWatcher ==
    /\ callbacks # <<>> /\ Head(callbacks).fn = "flush"
    /\ "route" \in dirty
    /\ LET r == switchStation(stations, currentStation, callbacks,
                              dirty \ {"route"}, Tail(route), TRUE)
           pushed == ResolvePath(DefaultStation, route)
       IN  IF r.threw
           THEN \* router.push(this.stream.defaultStation); a push to the
                \* current route is aborted and notifies no watcher
                /\ route' = pushed
                /\ dirty' = IF pushed # route THEN dirty ELSE dirty \ {"route"}
                /\ UNCHANGED <<currentStation, callbacks>>
           ELSE /\ currentStation' = r.cur
                /\ callbacks' = r.cbs
                /\ dirty' = r.dirty
                /\ UNCHANGED route
    /\ last' = Call(Tail(route), TRUE,
                    switchStation(stations, currentStation, callbacks,
                                  dirty \ {"route"}, Tail(route), TRUE).threw)
    /\ UNCHANGED <<pc, seed, hasStorage, stored, stations, selectedStation,
                   validationError, dialogOpen, docTitle, player, edits, draftEdits>>

\* a watcher of stream.stations without the test of localStorage
StationsWatcherUnguarded ==
    /\ callbacks # <<>> /\ Head(callbacks).fn = "flush"
    /\ "route" \notin dirty /\ "stations" \in dirty
    /\ stored' = Stringify(stations)
    /\ dirty' = dirty \ {"stations"}
    /\ UNCHANGED last
    /\ UNCHANGED <<pc, seed, hasStorage, stations, currentStation, route,
                   selectedStation, validationError, dialogOpen, callbacks,
                   docTitle, player, edits, draftEdits>>

\* watch["stream.stations"].handler, run by the scheduler flush
StationsWatcher ==
    /\ callbacks # <<>> /\ Head(callbacks).fn = "flush"
    /\ "route" \notin dirty /\ "stations" \in dirty
    /\ stored' = IF hasStorage THEN Stringify(stations) ELSE stored
    /\ dirty' = dirty \ {"stations"}
    /\ UNCHANGED last
    /\ UNCHANGED <<pc, seed, hasStorage, stations, currentStation, route,
                   selectedStation, validationError, dialogOpen, callbacks,
                   docTitle, player, edits, draftEdits>>

\* watch["stream.currentStation"], run by the scheduler flush
CurrentStationWatcher ==
    /\ callbacks # <<>> /\ Head(callbacks).fn = "flush"
    /\ dirty = {"current"}
    /\ docTitle' = currentStation[1].title
    /\ dirty' = {}
    /\ UNCHANGED last
    /\ UNCHANGED <<pc, seed, hasStorage, stored, stations, currentStation, route,
                   selectedStation, validationError, dialogOpen, callbacks, player,
                   edits, draftEdits>>

\* the first quiescent point after beforeMount ends the startup
AfterTick == IF pc = "startup" /\ Len(callbacks) = 1 THEN "ready" ELSE pc

\* the scheduler flush has run every queued watcher
FlushDone ==
    /\ callbacks # <<>> /\ Head(callbacks).fn = "flush"
    /\ dirty = {}
    /\ callbacks' = Tail(callbacks)
    /\ pc' = AfterTick
    /\ UNCHANGED last
    /\ UNCHANGED <<seed, hasStorage, stored, stations, currentStation, route,
                   selectedStation, validationError, dialogOpen, dirty,
                   docTitle, player, edits, draftEdits>>

\* the callback switchStation gave to Vue.nextTick: this.$refs.player.reload(play)
Reload ==
    /\ callbacks # <<>> /\ Head(callbacks).fn = "reload"
    /\ player' = [id |-> currentStation[1].id,
                  source |-> currentStation[1].source,
                  play |-> Head(callbacks).play]
    /\ callbacks' = Tail(callbacks)
    /\ pc' = AfterTick
    /\ UNCHANGED last
    /\ UNCHANGED <<seed, hasStorage, stored, stations, currentStation, route,
                   selectedStation, validationError, dialogOpen, dirty, docTitle,
                   edits, draftEdits>>

\* a navigation: the router sets $route, which queues watch.$route
Navigate(path) ==
    /\ Quiet /\ ~dialogOpen
    /\ path # route
    /\ route' = path
    /\ dirty' = dirty \cup {"route"}
    /\ callbacks' = QueueFlush(callbacks)
    /\ last' = NoCall
    /\ UNCHANGED <<pc, seed, hasStorage, stored, stations, currentStation,
                   selectedStation, validationError, dialogOpen, docTitle, player,
                   edits, draftEdits>>

----------------------------------------------------------------------------
(* StationEditor.js *)

Draft == selectedStation[1]

BlankDraft == [isNew |-> TRUE, id |-> <<>>, title |-> <<>>, description |-> "",
               source |-> <<[src |-> "", type |-> ""]>>]

\* String.prototype.toLowerCase on one character
LowerChar(c) == CASE c = "A" -> "a" [] c = "L" -> "l" [] c = "X" -> "x" [] OTHER -> c

toLowerCase(str) == [i \in 1..Len(str) |-> LowerChar(str[i])]

\* title.replace(" ", "_"): a string pattern replaces the first occurrence only
replaceSpace(str) ==
    IF \E i \in 1..Len(str) : str[i] = " "
    THEN LET first == CHOOSE i \in 1..Len(str) :
                         str[i] = " " /\ \A j \in 1..(i - 1) : str[j] # " "
         IN  [str EXCEPT ![first] = "_"]
    ELSE str

\* the state of the application that no editor method assigns
EditorFrame == UNCHANGED <<pc, seed, hasStorage, stored, currentStation, route,
                           docTitle, player>>

\* open(id) with an id: stages a copy of the station's clone
Open(id) ==
    /\ Quiet /\ ~dialogOpen
    /\ LET stationIndex == getStationIndex(stations, id)
       IN  IF stationIndex = -1
           THEN UNCHANGED <<selectedStation, dialogOpen>>
           ELSE LET station == stations[stationIndex + 1]
                IN  /\ selectedStation' = <<[isNew |-> FALSE, id |-> station.id,
                                             title |-> station.title,
                                             description |-> station.description,
                                             source |-> station.source]>>
                    /\ dialogOpen' = TRUE
    /\ UNCHANGED draftEdits
    /\ last' = NoCall
    /\ EditorFrame
    /\ UNCHANGED <<stations, validationError, callbacks, dirty, edits>>

\* open() without id: stages the provisional blank station
OpenNew ==
    /\ Quiet /\ ~dialogOpen
    /\ selectedStation' = <<BlankDraft>>
    /\ dialogOpen' = TRUE
    /\ UNCHANGED draftEdits
    /\ last' = NoCall
    /\ EditorFrame
    /\ UNCHANGED <<stations, validationError, callbacks, dirty, edits>>

\* the close button of the dialog: $refs.dialog.close(), whose close event
\* resets validationError; selectedStation stays as it is
CloseDialog ==
    /\ Quiet /\ dialogOpen
    /\ dialogOpen' = FALSE
    /\ validationError' = NoError
    /\ last' = NoCall
    /\ EditorFrame
    /\ UNCHANGED <<stations, selectedStation, callbacks, dirty, edits, draftEdits>>

\* bindings that write to the station of the registry as well, as they would
\* if open() staged the station itself and not a copy of its clone
EditDraftLive(draft) ==
    /\ Quiet /\ dialogOpen
    /\ draftEdits < MaxDraftEdits
    /\ draft # Draft
    /\ selectedStation' = <<draft>>
    /\ stations' = [i \in 1..Len(stations) |->
                       IF ~draft.isNew /\ stations[i].id = draft.id
                       THEN [stations[i] EXCEPT !.title = draft.title,
                                                !.description = draft.description,
                                                !.source = draft.source]
                       ELSE stations[i]]
    /\ draftEdits' = draftEdits + 1
    /\ last' = NoCall
    /\ EditorFrame
    /\ UNCHANGED <<validationError, dialogOpen, callbacks, dirty, edits>>

\* the v-model bindings and source buttons of the template
EditDraft(draft) ==
    /\ Quiet /\ dialogOpen
    /\ draftEdits < MaxDraftEdits
    /\ draft # Draft
    /\ selectedStation' = <<draft>>
    /\ draftEdits' = draftEdits + 1
    /\ last' = NoCall
    /\ EditorFrame
    /\ UNCHANGED <<stations, validationError, dialogOpen, callbacks, dirty, edits>>

SetTitle(title) ==
    /\ Quiet /\ dialogOpen
    /\ EditDraft([Draft EXCEPT !.title = title])

SetDescription(description) ==
    /\ Quiet /\ dialogOpen
    /\ EditDraft([Draft EXCEPT !.description = description])

SetSrc(i, src) ==
    /\ Quiet /\ dialogOpen
    /\ i \in 1..Len(Draft.source)
    /\ EditDraft([Draft EXCEPT !.source[i].src = src])

PushSource ==
    /\ Quiet /\ dialogOpen
    /\ Len(Draft.source) < MaxSources
    /\ EditDraft([Draft EXCEPT !.source = Append(@, [src |-> "", type |-> ""])])

SpliceSource(i) ==
    /\ Quiet /\ dialogOpen
    /\ Len(Draft.source) > 1
    /\ i \in 1..Len(Draft.source)
    /\ EditDraft([Draft EXCEPT !.source =
                     SubSeq(@, 1, i - 1) \o SubSeq(@, i + 1, Len(@))])

\* an addStation() that validates the draft but does not look its id up
AddStationUnchecked ==
    /\ Quiet /\ dialogOpen /\ Draft.isNew
    /\ edits < MaxEdits
    /\ LET id == toLowerCase(replaceSpace(Draft.title))
           error == StationError(id, Draft.title, Draft.description, Draft.source)
       IN  /\ selectedStation' = <<[Draft EXCEPT !.id = id]>>
           /\ IF error # NoError
              THEN /\ validationError' = error
                   /\ UNCHANGED <<stations, dialogOpen, callbacks, dirty, edits>>
              ELSE /\ stations' = addStation(stations, currentStation, id, Draft.title,
                                             Draft.description, Draft.source)
                   /\ dirty' = dirty \cup {"stations"}
                   /\ callbacks' = QueueFlush(callbacks)
                   /\ dialogOpen' = FALSE
                   /\ validationError' = NoError
                   /\ edits' = edits + 1
    /\ last' = NoCall
    /\ EditorFrame
    /\ UNCHANGED draftEdits

\* an addStation() that leaves validationError as the last attempt set it
AddStationKeepsError ==
    /\ Quiet /\ dialogOpen /\ Draft.isNew
    /\ edits < MaxEdits
    /\ LET id == toLowerCase(replaceSpace(Draft.title))
           error == addStationError(stations, id, Draft.title,
                                    Draft.description, Draft.source)
       IN  /\ selectedStation' = <<[Draft EXCEPT !.id = id]>>
           /\ IF error # NoError
              THEN /\ validationError' = error
                   /\ UNCHANGED <<stations, dialogOpen, callbacks, dirty, edits>>
              ELSE /\ stations' = addStation(stations, currentStation, id, Draft.title,
                                             Draft.description, Draft.source)
                   /\ dirty' = dirty \cup {"stations"}
                   /\ callbacks' = QueueFlush(callbacks)
                   /\ dialogOpen' = FALSE
                   /\ UNCHANGED validationError
                   /\ edits' = edits + 1
    /\ last' = NoCall
    /\ EditorFrame
    /\ UNCHANGED draftEdits

\* addStation(), the add button
AddStation ==
    /\ Quiet /\ dialogOpen /\ Draft.isNew
    /\ edits < MaxEdits
    /\ LET id == toLowerCase(replaceSpace(Draft.title))
           error == addStationError(stations, id, Draft.title,
                                    Draft.description, Draft.source)
       IN  /\ selectedStation' = <<[Draft EXCEPT !.id = id]>>
           /\ IF error # NoError
              THEN /\ validationError' = error
                   /\ UNCHANGED <<stations, dialogOpen, callbacks, dirty, edits>>
              ELSE /\ stations' = addStation(stations, currentStation, id, Draft.title,
                                             Draft.description, Draft.source)
                   /\ dirty' = dirty \cup {"stations"}
                   /\ callbacks' = QueueFlush(callbacks)
                   /\ dialogOpen' = FALSE
                   /\ validationError' = NoError
                   /\ edits' = edits + 1
    /\ last' = NoCall
    /\ EditorFrame
    /\ UNCHANGED draftEdits

\* saveStationEdit(): the method, whoever calls it
saveStationEdit ==
    /\ LET stationIndex == getStationIndex(stations, Draft.id)
           error == StationError(Draft.id, Draft.title, Draft.description, Draft.source)
       IN  IF error # NoError
           THEN /\ validationError' = error
                /\ UNCHANGED <<stations, dialogOpen, edits>>
           ELSE IF stationIndex = -1
           THEN \* logs, then assigns stations[-1]: a property that is no
                \* element of the array; the dialog is closed all the same
                /\ dialogOpen' = FALSE
                /\ validationError' = NoError
                /\ UNCHANGED <<stations, edits>>
           ELSE \* an assignment by index, which Vue does not observe
                /\ edits < MaxEdits
                /\ stations' = [stations EXCEPT ![stationIndex + 1] =
                                   Station(FreshRef(stations, currentStation),
                                           Draft.id, Draft.title,
                                           Draft.description, Draft.source)]
                /\ dialogOpen' = FALSE
                /\ validationError' = NoError
                /\ edits' = edits + 1
    /\ last' = NoCall
    /\ EditorFrame
    /\ UNCHANGED <<selectedStation, callbacks, dirty, draftEdits>>

\* the save button, shown in the dialog for a draft that is not new
SaveStationEdit ==
    /\ Quiet /\ dialogOpen /\ ~Draft.isNew
    /\ saveStationEdit

\* deleteHandler(): the method, whoever calls it
deleteHandler ==
    /\ LET index == getStationIndex(stations, Draft.id)
       IN  IF index # -1
           THEN /\ edits < MaxEdits
                /\ stations' = SubSeq(stations, 1, index) \o
                               SubSeq(stations, index + 2, Len(stations))
                /\ dirty' = dirty \cup {"stations"}
                /\ callbacks' = QueueFlush(callbacks)
                /\ dialogOpen' = FALSE
                /\ validationError' = NoError
                /\ edits' = edits + 1
           ELSE UNCHANGED <<stations, dirty, callbacks, dialogOpen, validationError,
                            edits>>
    /\ last' = NoCall
    /\ EditorFrame
    /\ UNCHANGED <<selectedStation, draftEdits>>

\* the delete button, shown in the dialog for a draft that is not new
DeleteHandler ==
    /\ Quiet /\ dialogOpen /\ ~Draft.isNew
    /\ deleteHandler

\* saveStationEdit() called while the dialog is not shown: the method is
\* reachable through the component, and selectedStation keeps the draft of the
\* last opening
SaveStationEditCall ==
    /\ Quiet /\ ~dialogOpen /\ selectedStation # <<>> /\ ~Draft.isNew
    /\ saveStationEdit

\* deleteHandler() called while the dialog is not shown
DeleteHandlerCall ==
    /\ Quiet /\ ~dialogOpen /\ selectedStation # <<>> /\ ~Draft.isNew
    /\ deleteHandler

----------------------------------------------------------------------------

Next ==
    \/ BeforeMount
    \/ RouteWatcher
    \/ StationsWatcher
    \/ CurrentStationWatcher
    \/ FlushDone
    \/ Reload
    \/ \E path \in PathInputs : Navigate(path)
    \/ \E id \in IdInputs : Open(id)
    \/ OpenNew
    \/ CloseDialog
    \/ \E title \in TitleInputs : SetTitle(title)
    \/ \E description \in DescriptionInputs : SetDescription(description)
    \/ \E i \in 1..MaxSources, src \in SrcInputs : SetSrc(i, src)
    \/ PushSource
    \/ \E i \in 1..MaxSources : SpliceSource(i)
    \/ AddStation
    \/ SaveStationEdit
    \/ DeleteHandler

Spec == Init /\ [][Next]_vars

\* the application with the editor's methods also called outside the dialog
EditorNext ==
    \/ Next
    \/ SaveStationEditCall
    \/ DeleteHandlerCall

EditorSpec == Init /\ [][EditorNext]_vars

\* the page is loaded again: the application starts anew with the seed list,
\* the storage and the location it had
Restart ==
    /\ Quiet \/ pc = "failed"
    /\ pc' = "init"
    /\ stations' = <<>>
    /\ currentStation' = <<>>
    /\ selectedStation' = <<>>
    /\ validationError' = NoError
    /\ dialogOpen' = FALSE
    /\ callbacks' = <<>>
    /\ dirty' = {}
    /\ docTitle' = <<>>
    /\ player' = NoPlayer
    /\ last' = NoCall
    /\ UNCHANGED <<seed, hasStorage, stored, route, edits, draftEdits>>

RestartNext ==
    \/ Next
    \/ Restart

RestartSpec == Init /\ [][RestartNext]_vars

----------------------------------------------------------------------------
(* Properties *)

\* the stations beforeMount step 1 makes of the seed list
Seeded == SeedStations(seed, <<>>)

\* the scheduler flush is about to run watch.$route
RouteEvent ==
    /\ callbacks # <<>> /\ Head(callbacks).fn = "flush"
    /\ "route" \in dirty

\* C1: in every reachable state no two stations of the registry have the same id
UniqueIds ==
    \A i, j \in 1..Len(stations) : stations[i].id = stations[j].id => i = j

\* C2: in every reachable state a current station that is set is an entry of the
\* registry (the same object, so the registry has a station with its id)
CurrentInRegistry ==
    currentStation # <<>> => \E i \in 1..Len(stations) : stations[i] = currentStation[1]

\* C3: once a route change has been processed to the end, corrective push
\* included, the station the route names is the active station (stated for seed
\* lists that contain the default station)
RouteNamesCurrent ==
    (Quiet /\ last.op = "switchStation" /\ DefaultStation \in Ids(Seeded))
        => /\ currentStation # <<>>
           /\ LastSegment(route) = currentStation[1].id

\* C4: after an editor operation that changed the registry and everything it
\* scheduled has run, the stored snapshot is the serialization of the registry
\* (it follows from the write having happened when the handler returned)
StoredMirrorsRegistry ==
    (Quiet /\ hasStorage /\ edits > 0) => stored = Stringify(stations)

\* C5: startup fails for no stored value unless it fails with nothing stored;
\* after it the registry starts with the valid seed stations; an unparseable
\* value is erased and the registry is what it is with nothing stored
StartupSurvivesStorage ==
    [][(pc = "init" /\ pc' # "init")
        => /\ pc' = "failed" => beforeMount(seed, hasStorage, NoItem, route).pc = "failed"
           /\ Len(stations') >= Len(Seeded)
           /\ SubSeq(stations', 1, Len(Seeded)) = Seeded
           /\ (hasStorage /\ stored.kind = "garbage")
                 => /\ stored' = NoItem
                    /\ stations' = beforeMount(seed, hasStorage, NoItem, route).stations
      ]_vars

\* C6: startup reconciliation keeps every seeded station as the seed made it, in
\* its place, and adds no entry for a stored record whose id a seeded station has
SeedWinsOverStored ==
    [][(pc = "init" /\ pc' # "init" /\ hasStorage /\ stored.kind = "array"
        /\ \E k \in 1..Len(stored.items) : stored.items[k].id \in Ids(Seeded))
        => /\ Len(stations') >= Len(Seeded)
           /\ SubSeq(stations', 1, Len(Seeded)) = Seeded
           /\ \A i \in (Len(Seeded) + 1)..Len(stations') :
                 stations'[i].id \notin Ids(Seeded)
      ]_vars

\* C6 witness: startup has merged a snapshot holding a record with the default
\* station's id and another title; the registry has the seed's station
ClashDiscarded ==
    /\ pc = "startup" /\ hasStorage /\ stored.kind = "array"
    /\ \E k \in 1..Len(stored.items) : stored.items[k] = ItemClash
    /\ \E i \in 1..Len(stations) :
          /\ stations[i].id = DefaultStation
          /\ stations[i].title = SeedDefault.title
    /\ Len(stations) > Len(Seeded)

\* C7: a call of switchStation with an id that is not in the registry throws and
\* changes neither the current station nor the callbacks nor the player
UnknownIdThrows ==
    [][(RouteEvent /\ Tail(route) \notin Ids(stations))
        => /\ last'.op = "switchStation" /\ last'.threw
           /\ currentStation' = currentStation
           /\ callbacks' = callbacks
           /\ player' = player
      ]_vars

\* C8: a call of switchStation with the current station's id returns without
\* error and changes neither the current station nor the callbacks nor the
\* player, for either play intent
SameStationNoOp ==
    [][/\ currentStation # <<>>
          => \A play \in BOOLEAN :
                switchStation(stations, currentStation, callbacks, dirty,
                              currentStation[1].id, play)
                = [threw |-> FALSE, cur |-> currentStation, cbs |-> callbacks,
                   dirty |-> dirty]
       /\ (RouteEvent /\ currentStation # <<>> /\ Tail(route) = currentStation[1].id)
          => /\ last' = Call(Tail(route), TRUE, FALSE)
             /\ currentStation' = currentStation
             /\ callbacks' = callbacks
             /\ dirty' = dirty \ {"route"}
             /\ player' = player
      ]_vars

\* C8 witness: the route watcher has called switchStation with the id of the
\* station that was current, and the flush goes on with no reload scheduled
SameStationCalled ==
    /\ callbacks = <<FlushCb>> /\ dirty = {}
    /\ last.op = "switchStation" /\ ~last.threw
    /\ currentStation # <<>> /\ last.id = currentStation[1].id
    /\ player.id = currentStation[1].id

\* C9: the player is told to reload only by the callback given to nextTick, which
\* runs after the flush that showed the new current station to its watchers:
\* never in the step that assigns the current station
ReloadAfterTick ==
    [][player' # player
        => /\ callbacks # <<>> /\ Head(callbacks).fn = "reload"
           /\ callbacks' = Tail(callbacks)
           /\ dirty = {}
           /\ currentStation # <<>> /\ currentStation' = currentStation
           /\ docTitle = currentStation[1].title
           /\ player'.id = currentStation[1].id
           /\ player'.source = currentStation[1].source
      ]_vars

\* C9 witness: a reload with play intent has reached the player
ReloadIssued ==
    /\ player.play /\ currentStation # <<>>
    /\ player.id = currentStation[1].id
    /\ callbacks = <<>>

\* C10: once startup is over there is a current station (stated for seed lists
\* that contain the default station)
StartupActivates ==
    (pc # "init" /\ DefaultStation \in Ids(Seeded)) => currentStation # <<>>

\* the id addStation() derives from the draft's title
DerivedId == toLowerCase(replaceSpace(Draft.title))

\* C11: an add through the editor whose derived id is the id of a station of the
\* registry fails: the registry is the same array with the same entries, an
\* error is recorded and the dialog stays open
DuplicateAddFails ==
    [][(AddStation /\ DerivedId \in Ids(stations))
        => /\ stations' = stations
           /\ validationError' = "DuplicateStation"
           /\ dialogOpen'
      ]_vars

\* C11 witness: the add button was pressed for a draft whose derived id a station
\* of the registry has, and the editor shows the error
DuplicateRefused ==
    /\ dialogOpen /\ selectedStation # <<>> /\ Draft.isNew
    /\ Draft.id = DerivedId /\ Draft.id \in Ids(stations)
    /\ validationError = "DuplicateStation"

\* a step of deleteHandler()
DeleteStep == DeleteHandler \/ DeleteHandlerCall

\* C12: deleteHandler() reports no error; for an id of the registry it removes
\* the one entry found for it and keeps the others in their order, for any other
\* id it leaves the registry as it is; after it no entry has the id, so that a
\* second call for the same id finds nothing to remove
DeleteIsIdempotent ==
    [][DeleteStep
        => LET index == getStationIndex(stations, Draft.id)
           IN  /\ pc' = pc
               /\ validationError' = NoError \/ validationError' = validationError
               /\ index # -1 => stations' = SubSeq(stations, 1, index) \o
                                            SubSeq(stations, index + 2, Len(stations))
               /\ index = -1 => stations' = stations
               /\ getStationIndex(stations', Draft.id) = -1
      ]_vars

\* the stations of a registry as sets of fields, object identity left out
Fields(arr) ==
    {[id |-> arr[i].id, title |-> arr[i].title,
      description |-> arr[i].description, source |-> arr[i].source] : i \in 1..Len(arr)}

\* C13: for the registry of any reachable state and any seed list whose valid
\* stations share no id with it, a startup with storage holding the registry's
\* serialization gives a registry whose stations are those of the seed and
\* those of the serialized registry, field by field
RoundTrip ==
    \A seedList \in SeedLists :
        LET fresh == SeedStations(seedList, <<>>)
            after == beforeMount(seedList, TRUE, Stringify(stations), route).stations
        IN  (Ids(fresh) \cap Ids(stations) = {})
                => Fields(after) = Fields(fresh) \cup Fields(stations)

SaveStep == SaveStationEdit \/ SaveStationEditCall

\* C15: saveStationEdit() with a valid draft whose id is in the registry puts a
\* station with the draft's fields at the index of that id and leaves the length
\* and every other entry as they are; with a draft whose id is not in the
\* registry it leaves the registry as it is and records an error
SaveReplacesInPlace ==
    [][SaveStep
        => LET index == getStationIndex(stations, Draft.id)
               valid == StationError(Draft.id, Draft.title, Draft.description,
                                     Draft.source) = NoError
           IN  /\ (index # -1 /\ valid)
                     => /\ Len(stations') = Len(stations)
                        /\ \A i \in 1..Len(stations) :
                              i # index + 1 => stations'[i] = stations[i]
                        /\ Fields(<<stations'[index + 1]>>)
                             = {[id |-> Draft.id, title |-> Draft.title,
                                 description |-> Draft.description,
                                 source |-> Draft.source]}
               /\ index = -1
                     => /\ stations' = stations
                        /\ validationError' # NoError
      ]_vars

\* C16: while the editor shows the draft of an existing station, a change of the
\* draft (title, description, a source added, removed or changed) and the
\* closing of the dialog without save or delete leave the registry, with every
\* entry, and the current station as they are
DraftIsACopy ==
    [][(/\ dialogOpen /\ selectedStation # <<>> /\ ~Draft.isNew
        /\ \/ selectedStation' # selectedStation
           \/ ~dialogOpen' /\ edits' = edits)
        => /\ stations' = stations
           /\ currentStation' = currentStation
           /\ UNCHANGED <<dirty, callbacks, stored>>
      ]_vars

\* C16 witness: the dialog was closed without save or delete on an edited draft
\* of an existing station; the station of the registry has not got the draft's
\* fields
DraftDiscarded ==
    /\ ~dialogOpen /\ selectedStation # <<>> /\ ~Draft.isNew
    /\ draftEdits > 0 /\ edits = 0
    /\ \E i \in 1..Len(stations) :
          /\ stations[i].id = Draft.id
          /\ Fields(<<stations[i]>>) # {[id |-> Draft.id, title |-> Draft.title,
                                          description |-> Draft.description,
                                          source |-> Draft.source]}

\* C17: addStation() either appends one station with the draft's fields and the
\* derived id to the end of the registry, closes the dialog and shows no error,
\* whatever error an earlier attempt left, or leaves the registry as it is,
\* keeps the dialog open and records the error of this attempt
AddCommits ==
    [][AddStation
        => \/ /\ Len(stations') = Len(stations) + 1
              /\ SubSeq(stations', 1, Len(stations)) = stations
              /\ Fields(<<stations'[Len(stations')]>>)
                   = {[id |-> DerivedId, title |-> Draft.title,
                       description |-> Draft.description, source |-> Draft.source]}
              /\ ~dialogOpen'
              /\ validationError' = NoError
           \/ /\ stations' = stations
              /\ dialogOpen'
              /\ validationError' # NoError
              /\ validationError' = addStationError(stations, DerivedId, Draft.title,
                                                    Draft.description, Draft.source)
      ]_vars

\* C17 witness: an add has succeeded; the new station is the last of the
\* registry, the dialog is closed and no error is shown
AddCommitted ==
    /\ ~dialogOpen /\ selectedStation # <<>> /\ Draft.isNew
    /\ edits > 0 /\ validationError = NoError
    /\ stations # <<>> /\ stations[Len(stations)].id = Draft.id
    /\ stations[Len(stations)].title = Draft.title

\* C18: a startup that follows changes made through the editor leaves every
\* valid seed station in the registry as the seed list has it, in the seed's
\* order and ahead of every other station, and each other station comes from a
\* stored record with another id
SeedSurvivesRestart ==
    [][(pc = "init" /\ pc' # "init" /\ edits > 0)
        => /\ Len(stations') >= Len(Seeded)
           /\ \A i \in 1..Len(Seeded) : stations'[i] = Seeded[i]
           /\ \A i \in (Len(Seeded) + 1)..Len(stations') :
                 /\ stations'[i].id \notin Ids(Seeded)
                 /\ hasStorage /\ stored.kind = "array"
                 /\ \E k \in 1..Len(stored.items) :
                       Fields(<<stations'[i]>>) = Fields(<<stored.items[k]>>)
      ]_vars

\* C18 witness: a restart after a change through the editor; the stored list has
\* no record equal to some seed station (the user deleted or changed it), and
\* the registry starts with the seed stations again
SeedRestored ==
    /\ pc = "startup" /\ edits > 0 /\ Seeded # <<>>
    /\ hasStorage /\ stored.kind = "array"
    /\ \E i \in 1..Len(Seeded) : Fields(<<Seeded[i]>>) \cap Fields(stored.items) = {}
    /\ SubSeq(stations, 1, Len(Seeded)) = Seeded

\* the reload callbacks waiting in the nextTick queue
Reloads(cbs) == Cardinality({i \in 1..Len(cbs) : cbs[i].fn = "reload"})

\* C19: a step that runs a reload callback has a current station and leaves it;
\* any other step schedules one reload if it changes the current station and
\* none if it does not; the step of a route event leaves registry and storage
\* as they are
ReloadPerTransition ==
    [][/\ IF callbacks # <<>> /\ Head(callbacks).fn = "reload"
          THEN /\ currentStation # <<>>
               /\ currentStation' = currentStation
               /\ Reloads(callbacks') = Reloads(callbacks) - 1
          ELSE Reloads(callbacks') - Reloads(callbacks)
                  = IF currentStation' # currentStation THEN 1 ELSE 0
       /\ RouteEvent => stations' = stations /\ stored' = stored
      ]_vars

\* C19 witness: a route event has changed the current station; one reload waits
\* in the queue while the player still has the station it was told before
ReloadScheduled ==
    /\ last.op = "switchStation" /\ ~last.threw
    /\ currentStation # <<>> /\ currentStation[1].id = last.id
    /\ Reloads(callbacks) = 1
    /\ player.id # <<>> /\ player.id # last.id

\* a step of the scheduler: a watcher, the end of the flush, or a reload
Tick == RouteWatcher \/ StationsWatcher \/ CurrentStationWatcher \/ FlushDone \/ Reload

\* what is left to do before the nextTick queue is empty: a pending route event
\* counts for the reload and the title update it may schedule and, while the
\* route is not yet one a corrective push leaves alone, for that push
Rank ==
    Len(callbacks) + Cardinality(dirty \ {"route"})
    + (IF "route" \notin dirty THEN 0
       ELSE IF ResolvePath(DefaultStation, route) # route THEN 4 ELSE 3)

\* C20: while callbacks are queued the scheduler can take a step, and each step
\* brings quiescence nearer; the route changes in such a step only by the
\* corrective push of a route event whose id is not in the registry, to a route
\* naming the default station, and a route event on a route that a corrective
\* push has produced changes the route no more, whether or not the default
\* station is in the registry
RouteFallbackTerminates ==
    [][callbacks # <<>>
        => /\ ENABLED Tick
           /\ Rank' < Rank
           /\ route' # route
                 => /\ RouteEvent /\ last'.threw
                    /\ LastSegment(route') = DefaultStation
                    /\ ResolvePath(DefaultStation, route') = route'
           /\ (RouteEvent /\ ResolvePath(DefaultStation, route) = route)
                 => /\ route' = route
                    /\ "route" \notin dirty'
      ]_vars

\* C20 witness: the user deleted the default station; a route event for an id
\* that is not in the registry was corrected to a route naming the default
\* station, the event for that route failed too, and the application is quiet
FallbackEnded ==
    /\ Quiet /\ last.op = "switchStation" /\ last.threw
    /\ DefaultStation \in Ids(Seeded) /\ DefaultStation \notin Ids(stations)
    /\ LastSegment(route) = DefaultStation
    /\ LastSegment(last.id) = DefaultStation

====
